---- MODULE Spec2Model ----
(***************************************************************************)
(* State-machine model of the NewSpace Scrapper dashboard: the index page  *)
(* (file upload, filter, search), the company page (remote fetch) and the  *)
(* pure functions both pages share (validator, aggregator, filter).        *)
(*                                                                         *)
(* Strings are sequences of UTF-16 code units (65 = "A", 97 = "a").        *)
(* A JSON value that the code inspects is a record [t, s, a]:              *)
(*   t = "undef"  undefined or null (a missing field)                      *)
(*   t = "other"  a truthy value that is neither string nor array (5, {})  *)
(*   t = "str"    a string, its code units in s                            *)
(*   t = "arr"    an array, its entries in a                               *)
(* An entry of a categories array is [t, s]: a string, or the number 5     *)
(* (t = "other", s = its ToString).                                        *)
(* An array element is [kind, url, categories, summary]:                   *)
(*   kind = "null"  a falsy element (null, 0, "")                          *)
(*   kind = "prim"  a truthy primitive (7, "x", true)                      *)
(*   kind = "obj"   an object (or array) with the three fields            *)
(***************************************************************************)
EXTENDS Integers, Sequences, FiniteSets, TLC

VARIABLES
    page,               \* which route is mounted: "index" or "company"
    data,               \* useState data (Index.tsx:24, CompanyPage.tsx:18)
    selectedCategories, \* useState selectedCategories
    searchQuery,        \* useState searchQuery
    originalFilename,   \* useState originalFilename (Index.tsx:27)
    isProcessing,       \* FileUpload's useState isProcessing
    uploads,            \* processFile calls suspended at `await file.text()`
    company,            \* route parameter of the company page
    loading,            \* useState loading (CompanyPage.tsx:21)
    fetches,            \* loadCompanyData calls suspended at `await fetch`
    toast,              \* the last notification raised
    crashed,            \* a render threw: the React tree is unmounted
    workbook,           \* what the last step handed to XLSX (ExportButton.tsx)
    views,              \* the useMemo values of the mounted page
    availableCompanyData,   \* useState availableCompanyData (Index.tsx:28)
    isCheckingAvailability, \* useState isCheckingAvailability (Index.tsx:29)
    storage,            \* localStorage: the two availability cache keys
    now,                \* Date.now()
    checks,             \* checkCompanyDataAvailability calls in progress
    inp,                \* input of the pure function being applied
    out,                \* its result
    pc                  \* "app", or the pure-function step: "ready"/"done"

vars == <<page, data, selectedCategories, searchQuery, originalFilename,
          isProcessing, uploads, company, loading, fetches, toast, crashed,
          workbook, views, availableCompanyData, isCheckingAvailability,
          storage, now, checks, inp, out, pc>>

\* the availability check of the index page and its cache
availVars == <<availableCompanyData, isCheckingAvailability, storage, now, checks>>

appVars == <<page, data, selectedCategories, searchQuery, originalFilename,
             isProcessing, uploads, company, loading, fetches, toast, crashed,
             workbook, views, availVars>>

(***************************************************************************)
(* Bounds                                                                  *)
(***************************************************************************)
MaxRecords == 2     \* longest dataset drawn for the pure functions
MaxSelected == 2    \* longest selection drawn for the pure filter
MaxInflight == 2    \* suspended file reads / fetches at one time

(***************************************************************************)
(* JSON values                                                             *)
(***************************************************************************)
Undef == [t |-> "undef", s |-> <<>>, a |-> <<>>]
Other == [t |-> "other", s |-> <<>>, a |-> <<>>]
Str(s) == [t |-> "str", s |-> s, a |-> <<>>]
Arr(a) == [t |-> "arr", s |-> <<>>, a |-> a]
SEnt(s) == [t |-> "str", s |-> s]
NumEnt == [t |-> "other", s |-> <<53>>]

Obj(u, c, m) == [kind |-> "obj", url |-> u, categories |-> c, summary |-> m]
NullElem == [kind |-> "null", url |-> Undef, categories |-> Undef, summary |-> Undef]
PrimElem == [kind |-> "prim", url |-> Undef, categories |-> Undef, summary |-> Undef]

\* a parsed top-level value: an array of elements, or anything else
JArray(items) == [t |-> "arr", items |-> items]
JNotArray == [t |-> "other", items |-> <<>>]

Truthy(v) == v.t = "other" \/ v.t = "arr" \/ (v.t = "str" /\ v.s # <<>>)

(***************************************************************************)
(* String primitives                                                       *)
(***************************************************************************)
toLowerCase(s) ==
    [i \in 1..Len(s) |-> IF s[i] \in 65..90 THEN s[i] + 32 ELSE s[i]]

\* String.prototype.includes
includes(s, t) ==
    \E off \in 0..(Len(s) - Len(t)) : \A k \in 1..Len(t) : s[off + k] = t[k]

\* the default comparison of Array.prototype.sort: code units, left to right
RECURSIVE strLess(_, _)
strLess(x, y) ==
    IF y = <<>> THEN FALSE
    ELSE IF x = <<>> THEN TRUE
    ELSE IF Head(x) # Head(y) THEN Head(x) < Head(y)
    ELSE strLess(Tail(x), Tail(y))

\* Array.prototype.includes on an array of entries
arrayIncludes(a, x) == \E i \in 1..Len(a) : a[i] = x

(***************************************************************************)
(* Loader: validateJsonData (FileUpload)                                   *)
(***************************************************************************)
Accepted(items) == [ok |-> TRUE, value |-> items, what |-> "none", index |-> -1]
Rejected(what, index) == [ok |-> FALSE, value |-> <<>>, what |-> what, index |-> index]

\* mutant: non-string entries are kept
stringEntriesAll(a) == a

\* item.categories.filter(cat => typeof cat === 'string')
stringEntries(a) == SelectSeq(a, LAMBDA e : e.t = "str")

\* mutant: the categories field is checked before the url field
validateItemCategoriesFirst(item, index) ==
    IF item.kind # "obj"
    THEN Rejected("object", index)
    ELSE IF ~Truthy(item.categories) \/ item.categories.t # "arr"
    THEN Rejected("categories", index)
    ELSE IF ~Truthy(item.url) \/ item.url.t # "str"
    THEN Rejected("url", index)
    ELSE Accepted(<<Obj(item.url, Arr(SelectSeq(item.categories.a, LAMBDA e : e.t = "str")), Undef)>>)

\* the callback of data.map for the element at 0-based index: the record it
\* returns, or the error it throws
validateItem(item, index) ==
    IF item.kind # "obj"
    THEN Rejected("object", index)
    ELSE IF ~Truthy(item.url) \/ item.url.t # "str"
    THEN Rejected("url", index)
    ELSE IF ~Truthy(item.categories) \/ item.categories.t # "arr"
    THEN Rejected("categories", index)
    ELSE Accepted(<<Obj(item.url, Arr(stringEntries(item.categories.a)), Undef)>>)

\* mutant: the elements before the first offending one are returned
RECURSIVE mapValidatePrefix(_, _, _)
mapValidatePrefix(items, i, acc) ==
    IF i > Len(items) THEN Accepted(acc)
    ELSE LET r == validateItem(items[i], i - 1)
         IN  IF r.ok THEN mapValidatePrefix(items, i + 1, acc \o r.value)
             ELSE Accepted(acc)

\* data.map(...): elements are visited in index order, the first throw ends it
RECURSIVE mapValidate(_, _, _)
mapValidate(items, i, acc) ==
    IF i > Len(items) THEN Accepted(acc)
    ELSE LET r == validateItem(items[i], i - 1)
         IN  IF r.ok THEN mapValidate(items, i + 1, acc \o r.value) ELSE r

validateJsonData(parsed) ==
    IF parsed.t # "arr" THEN Rejected("array", -1)
    ELSE mapValidate(parsed.items, 1, <<>>)

(***************************************************************************)
(* Aggregator: allCategories and categoryStats (Index, CompanyPage)        *)
(***************************************************************************)
\* new Set + forEach/add: the distinct entries in first-insertion order
RECURSIVE addAll(_, _)
addAll(set, a) ==
    IF a = <<>> THEN set
    ELSE addAll(IF arrayIncludes(set, Head(a)) THEN set ELSE Append(set, Head(a)),
                Tail(a))

RECURSIVE collectCategories(_, _)
collectCategories(items, set) ==
    IF items = <<>> THEN set
    ELSE collectCategories(Tail(items), addAll(set, Head(items).categories.a))

\* Array.prototype.sort() with no comparator: stable, by the code units of
\* ToString of each entry
RECURSIVE insertSorted(_, _)
insertSorted(sorted, e) ==
    IF sorted = <<>> THEN <<e>>
    ELSE IF strLess(e.s, Head(sorted).s) THEN <<e>> \o sorted
    ELSE <<Head(sorted)>> \o insertSorted(Tail(sorted), e)

RECURSIVE arraySort(_, _)
arraySort(a, acc) ==
    IF a = <<>> THEN acc ELSE arraySort(Tail(a), insertSorted(acc, Head(a)))

\* mutant: the trailing sort() is missing
allCategoriesUnsorted(d) == collectCategories(d.items, <<>>)

allCategories(d) == arraySort(collectCategories(d.items, <<>>), <<>>)

RECURSIVE occurrences(_, _)
occurrences(a, x) ==
    IF a = <<>> THEN 0
    ELSE (IF Head(a) = x THEN 1 ELSE 0) + occurrences(Tail(a), x)

RECURSIVE sumOccurrences(_, _)
sumOccurrences(items, x) ==
    IF items = <<>> THEN 0
    ELSE occurrences(Head(items).categories.a, x) + sumOccurrences(Tail(items), x)

\* mutant: every occurrence of the label is counted, not every record
countForOccurrences(d, category) == sumOccurrences(d.items, category)

\* data.filter(item => item.categories.includes(category)).length
countFor(d, category) ==
    Len(SelectSeq(d.items, LAMBDA item : arrayIncludes(item.categories.a, category)))

\* the stats object as the list of its (key, value) assignments, one per
\* derived label (labels being ordinary property names)
categoryStats(d) ==
    LET cats == allCategories(d)
    IN  [i \in 1..Len(cats) |-> [key |-> cats[i].s, value |-> countFor(d, cats[i])]]

(***************************************************************************)
(* Filter / search: filteredData (Index, CompanyPage)                      *)
(***************************************************************************)
\* mutant: the length test is inverted, any selection lets every record pass
matchesCategoryInverted(item, selected) ==
    Len(selected) > 0
    \/ \E i \in 1..Len(selected) : arrayIncludes(item.categories.a, selected[i])

\* mutant: the empty selection is not special-cased
matchesCategoryNonEmptyOnly(item, selected) ==
    \E i \in 1..Len(selected) : arrayIncludes(item.categories.a, selected[i])

\* mutant: AND semantics, every selected label must be on the record
matchesCategoryAll(item, selected) ==
    \A k \in 1..Len(selected) : arrayIncludes(item.categories.a, selected[k])

matchesCategory(item, selected) ==
    Len(selected) = 0
    \/ \E i \in 1..Len(selected) : arrayIncludes(item.categories.a, selected[i])

\* mutant: the query is not lower-cased
matchesSearchQueryCase(item, query) ==
    \/ query = <<>>
    \/ includes(toLowerCase(item.url.s), query)
    \/ \E i \in 1..Len(item.categories.a) :
          includes(toLowerCase(item.categories.a[i].s), query)
    \/ (Truthy(item.summary) /\ includes(toLowerCase(item.summary.s), query))

matchesSearch(item, query) ==
    \/ query = <<>>
    \/ includes(toLowerCase(item.url.s), toLowerCase(query))
    \/ \E i \in 1..Len(item.categories.a) :
          includes(toLowerCase(item.categories.a[i].s), toLowerCase(query))
    \/ (Truthy(item.summary)
        /\ includes(toLowerCase(item.summary.s), toLowerCase(query)))

\* mutant: one predicate is enough
filteredDataEither(d, selected, query) ==
    SelectSeq(d.items, LAMBDA item :
        matchesCategory(item, selected) \/ matchesSearch(item, query))

filteredData(d, selected, query) ==
    SelectSeq(d.items, LAMBDA item :
        matchesCategory(item, selected) /\ matchesSearch(item, query))

(***************************************************************************)
(* The three useMemo hooks of a page (Index.tsx:149-177,                   *)
(* CompanyPage.tsx:71-99).  A hook recomputes when one of its dependencies *)
(* is another value than at the last render; every setter of the code is   *)
(* given a new array, so a changed value is a changed reference.           *)
(***************************************************************************)
\* categoryStats computed over the memoized category list
statsOver(cats, d) ==
    [i \in 1..Len(cats) |-> [key |-> cats[i].s, value |-> countFor(d, cats[i])]]

\* the first render of a component
freshViews(d, selected, query) ==
    [allCategories |-> allCategories(d),
     filteredData |-> filteredData(d, selected, query),
     categoryStats |-> statsOver(allCategories(d), d)]

\* mutant of depsChanged: a hook with an empty dependency list
depsNeverChanged(old, new) == FALSE

\* a dependency list differs from the one of the last render
depsChanged(old, new) == old # new

\* a re-render of the same component
memoViews(v, d, selected, query, d2, selected2, query2) ==
    LET cats == IF depsChanged(<<d>>, <<d2>>) THEN allCategories(d2) ELSE v.allCategories
    IN  [allCategories |-> cats,
         filteredData |->
            IF depsChanged(<<d, selected, query>>, <<d2, selected2, query2>>)
            THEN filteredData(d2, selected2, query2)
            ELSE v.filteredData,
         categoryStats |->
            IF depsChanged(<<d, v.allCategories>>, <<d2, cats>>)
            THEN statsOver(cats, d2)
            ELSE v.categoryStats]

\* the hooks of the render that follows a step: a new page is a new
\* component; a render that throws leaves nothing mounted
hooks ==
    views' = IF crashed' THEN views
             ELSE IF page' # page
             THEN freshViews(data', selectedCategories', searchQuery')
             ELSE memoViews(views, data, selectedCategories, searchQuery,
                            data', selectedCategories', searchQuery')

(***************************************************************************)
(* Exporter (ExportButton.tsx).  A workbook is what exportToExcel hands to *)
(* the spreadsheet library: the (name, rows) pairs given to                *)
(* book_append_sheet, in order, and the filename given to writeFile.       *)
(* threw: the code's own statements threw before writeFile was reached.    *)
(***************************************************************************)
SheetNameMax == 31

NoWorkbook == [written |-> FALSE, threw |-> FALSE, sheets |-> <<>>, filename |-> <<>>]

\* "Summary", "URL", "Human Analysis"
HeaderRow ==
    << Str(<<83, 117, 109, 109, 97, 114, 121>>),
       Str(<<85, 82, 76>>),
       Str(<<72, 117, 109, 97, 110, 32, 65, 110, 97, 108, 121, 115, 105, 115>>) >>

\* "link-analysis.xlsx", ".xlsx", ".json"
DefaultFilename ==
    <<108, 105, 110, 107, 45, 97, 110, 97, 108, 121, 115, 105, 115, 46, 120, 108, 115, 120>>
DotXlsx == <<46, 120, 108, 115, 120>>
DotJson == <<46, 106, 115, 111, 110>>

\* the characters of /[\\\/\?\*\[\]]/ : \ / ? * [ ]
ReplacedChars == { 92, 47, 63, 42, 91, 93 }

substring(s, from, to) ==
    LET hi == IF to < Len(s) THEN to ELSE Len(s)
    IN  SubSeq(s, from + 1, hi)

\* mutant of cleanCategoryName: no truncation
cleanCategoryNameUncut(category) ==
    [i \in 1..Len(category) |-> IF category[i] \in ReplacedChars THEN 95 ELSE category[i]]

cleanCategoryName(category) ==
    substring([i \in 1..Len(category) |->
                  IF category[i] \in ReplacedChars THEN 95 ELSE category[i]],
              0, SheetNameMax)

\* mutant of categoryData: the records whose first label is the category
categoryDataFirstLabel(d, category) ==
    SelectSeq(d.items, LAMBDA item :
        Len(item.categories.a) > 0 /\ item.categories.a[1] = category)

\* data.filter(item => item.categories.includes(category))
categoryData(d, category) ==
    SelectSeq(d.items, LAMBDA item : arrayIncludes(item.categories.a, category))

sheetData(d, category) ==
    LET rows == categoryData(d, category)
    IN  <<HeaderRow>> \o
        [i \in 1..Len(rows) |->
            << IF Truthy(rows[i].summary) THEN rows[i].summary ELSE Str(<<>>),
               rows[i].url,
               Str(<<>>) >>]

\* the forEach over the sorted categories; category.replace throws on an
\* entry that is not a string
RECURSIVE appendSheets(_, _, _, _)
appendSheets(d, categories, i, acc) ==
    IF i > Len(categories) THEN [threw |-> FALSE, sheets |-> acc]
    ELSE IF categories[i].t # "str" THEN [threw |-> TRUE, sheets |-> acc]
    ELSE appendSheets(d, categories, i + 1,
             Append(acc, [name |-> cleanCategoryName(categories[i].s),
                          rows |-> sheetData(d, categories[i])]))

\* originalFilename.replace(/\.json$/i, '')
stripJson(name) ==
    IF Len(name) >= 5 /\ toLowerCase(SubSeq(name, Len(name) - 4, Len(name))) = DotJson
    THEN SubSeq(name, 1, Len(name) - 5)
    ELSE name

exportFilename(originalName) ==
    IF Truthy(originalName) THEN stripJson(originalName.s) \o DotXlsx
    ELSE DefaultFilename

exportToExcel(d, originalName) ==
    IF Len(d.items) = 0 THEN NoWorkbook
    ELSE LET r == appendSheets(d, allCategories(d), 1, <<>>)
         IN  [written |-> ~r.threw, threw |-> r.threw, sheets |-> r.sheets,
              filename |-> IF r.threw THEN <<>> ELSE exportFilename(originalName)]

(***************************************************************************)
(* Input pools.  Code units: 65 A, 66 B, 73 I, 83 S,                       *)
(* 97 a, 98 b, 105 i, 113 q, 115 s, 120 x, 122 z.                          *)
(***************************************************************************)
Labels == { <<65, 98>>, <<66>>, <<97, 98>> }              \* "Ab", "B", "ab"

\* well-formed LinkData records
RecordPool ==
    { Obj(Str(<<120, 97>>), Arr(<<SEnt(<<97, 98>>), SEnt(<<66>>)>>), Str(<<73, 115>>)),
      Obj(Str(<<73, 83>>), Arr(<<SEnt(<<66>>), SEnt(<<66>>)>>), Undef),
      Obj(Str(<<120>>), Arr(<<SEnt(<<65, 98>>)>>), Str(<<>>)),
      Obj(Str(<<120, 97>>), Arr(<<>>), Undef),
      Obj(Str(<<120>>), Arr(<<SEnt(<<66>>), SEnt(<<65, 98>>)>>), Str(<<105, 83>>)),
      Obj(Str(<<105, 115>>), Arr(<<SEnt(<<97, 98>>)>>), Undef) }

\* elements a parsed upload may hold, well-formed or not
RawPool ==
    { Obj(Str(<<120, 97>>), Arr(<<SEnt(<<97, 98>>), NumEnt, SEnt(<<66>>)>>), Str(<<73, 115>>)),
      Obj(Str(<<73, 83>>), Arr(<<SEnt(<<66>>), SEnt(<<66>>)>>), Undef),
      Obj(Str(<<120>>), Arr(<<>>), Str(<<>>)),
      NullElem,
      PrimElem,
      Obj(Undef, Arr(<<SEnt(<<66>>)>>), Undef),
      Obj(Str(<<>>), Undef, Undef),
      Obj(Other, Arr(<<>>), Undef),
      Obj(Str(<<120>>), Undef, Undef),
      Obj(Str(<<120>>), Other, Undef),
      Obj(Str(<<120>>), Str(<<97, 98>>), Undef) }

\* "", "is", "IS", "a", "B", "q"
Queries == { <<>>, <<105, 115>>, <<73, 83>>, <<97>>, <<66>>, <<113>> }

\* the labels of the pool and one ("zz") that no record carries
SelectableEntries == { SEnt(l) : l \in Labels } \cup { SEnt(<<122, 122>>) }

SeqsUpTo(S, n) == UNION { [1..k -> S] : k \in 0..n }

Datasets == { JArray(items) : items \in SeqsUpTo(RecordPool, MaxRecords) }
Selections == SeqsUpTo(SelectableEntries, MaxSelected)
ParsedValues ==
    { JArray(items) : items \in SeqsUpTo(RawPool, MaxRecords) } \cup { JNotArray }

\* localStorage without the two cache keys
NoStorage == [cached |-> [k |-> "absent", v |-> {}],
              expiry |-> [k |-> "absent", v |-> 0]]

NoToast == [kind |-> "none", what |-> "none", index |-> -1, who |-> <<>>]

DashboardInit ==
    /\ page = "index"
    /\ data = JArray(<<>>)
    /\ selectedCategories = <<>>
    /\ searchQuery = <<>>
    /\ originalFilename = Str(<<>>)
    /\ isProcessing = FALSE
    /\ uploads = <<>>
    /\ company = <<>>
    /\ loading = FALSE
    /\ fetches = <<>>
    /\ toast = NoToast
    /\ crashed = FALSE
    /\ workbook = NoWorkbook
    /\ views = freshViews(JArray(<<>>), <<>>, <<>>)
    /\ availableCompanyData = {}
    /\ isCheckingAvailability = FALSE
    /\ now = 0
    /\ checks = <<>>

\* the first visit: nothing is cached
AppInit ==
    /\ DashboardInit
    /\ storage = NoStorage

(***************************************************************************)
(* The pure functions applied to drawn inputs                              *)
(***************************************************************************)
FilterInit ==
    /\ AppInit
    /\ inp \in [data : Datasets, selected : Selections, query : Queries]
    /\ out = <<>>
    /\ pc = "ready"

ApplyFilter ==
    /\ pc = "ready"
    /\ out' = filteredData(inp.data, inp.selected, inp.query)
    /\ pc' = "done"
    /\ UNCHANGED <<appVars, inp>>

FilterSpec == FilterInit /\ [][ApplyFilter]_vars

AggregateInit ==
    /\ AppInit
    /\ inp \in Datasets
    /\ out = <<>>
    /\ pc = "ready"

ApplyCategories ==
    /\ pc = "ready"
    /\ out' = allCategories(inp)
    /\ pc' = "categories"
    /\ UNCHANGED <<appVars, inp>>

ApplyStats ==
    /\ pc = "ready"
    /\ out' = categoryStats(inp)
    /\ pc' = "stats"
    /\ UNCHANGED <<appVars, inp>>

AggregateNext == ApplyCategories \/ ApplyStats

AggregateSpec == AggregateInit /\ [][AggregateNext]_vars

ValidateInit ==
    /\ AppInit
    /\ inp \in ParsedValues
    /\ out = <<>>
    /\ pc = "ready"

ApplyValidate ==
    /\ pc = "ready"
    /\ out' = validateJsonData(inp)
    /\ pc' = "done"
    /\ UNCHANGED <<appVars, inp>>

ValidateSpec == ValidateInit /\ [][ApplyValidate]_vars

\* labels for the exporter: "B", "Ab", "a/b", "a:b", "", and two labels of
\* 32 code units that agree on their first 31
LongLabel(last) == [i \in 1..(SheetNameMax + 1) |-> IF i <= SheetNameMax THEN 97 ELSE last]

ExportPool ==
    { Obj(Str(<<120>>), Arr(<<SEnt(<<66>>), SEnt(<<65, 98>>)>>), Str(<<73, 115>>)),
      Obj(Str(<<121>>), Arr(<<SEnt(<<97, 47, 98>>), SEnt(<<66>>)>>), Undef),
      Obj(Str(<<122>>), Arr(<<SEnt(<<97, 58, 98>>)>>), Str(<<>>)),
      Obj(Str(<<119>>), Arr(<<SEnt(<<>>)>>), Undef),
      Obj(Str(<<118>>), Arr(<<SEnt(LongLabel(98)), SEnt(LongLabel(99))>>), Str(<<113>>)),
      Obj(Str(<<117>>), Arr(<<>>), Str(<<113>>)) }

ExportDatasets == { JArray(items) : items \in SeqsUpTo(ExportPool, MaxRecords) }

\* originalFilename props: undefined, "", "n.json", "n.JSON", "O", "n.txt"
ExportNames ==
    { Undef, Str(<<>>), Str(<<110, 46, 106, 115, 111, 110>>),
      Str(<<110, 46, 74, 83, 79, 78>>), Str(<<79>>), Str(<<110, 46, 116, 120, 116>>) }

ExportInit ==
    /\ AppInit
    /\ inp \in [data : ExportDatasets, originalFilename : ExportNames]
    /\ out = <<>>
    /\ pc = "ready"

ApplyExport ==
    /\ pc = "ready"
    /\ out' = exportToExcel(inp.data, inp.originalFilename)
    /\ pc' = "done"
    /\ UNCHANGED <<appVars, inp>>

ExportSpec == ExportInit /\ [][ApplyExport]_vars

(***************************************************************************)
(* Files the user can hand to FileUpload.  Names: "n.json", "n.JSON",      *)
(* "n.txt" (110 n, 46 ., 106 j, 115 s, 111 o, 116 t, 74 J, 79 O, 78 N).    *)
(* content.k: "badjson" (JSON.parse throws) or "json" (parsed value in     *)
(* content.v).  Reading any file may fail (file.text() rejects).           *)
(***************************************************************************)
File(name, jsonType, k, v) ==
    [name |-> name, jsonType |-> jsonType, content |-> [k |-> k, v |-> v]]

NameJson == <<110, 46, 106, 115, 111, 110>>
NameUpper == <<110, 46, 74, 83, 79, 78>>
NameTxt == <<110, 46, 116, 120, 116>>

Files ==
    { \* valid: a summary, a non-string category entry, a repeated label
      File(NameJson, TRUE,  "json",
           JArray(<<Obj(Str(<<120, 97>>), Arr(<<SEnt(<<97, 98>>), NumEnt, SEnt(<<66>>)>>), Str(<<73, 115>>)),
                    Obj(Str(<<73, 83>>), Arr(<<SEnt(<<66>>), SEnt(<<66>>)>>), Undef)>>)),
      \* valid, named by MIME type only
      File(NameUpper, TRUE, "json",
           JArray(<<Obj(Str(<<120>>), Arr(<<SEnt(<<65, 98>>)>>), Str(<<113>>))>>)),
      \* valid and empty
      File(NameJson, FALSE, "json", JArray(<<>>)),
      \* second element lacks url
      File(NameJson, FALSE, "json",
           JArray(<<Obj(Str(<<73, 83>>), Arr(<<SEnt(<<66>>)>>), Undef),
                    Obj(Undef, Arr(<<SEnt(<<66>>)>>), Undef)>>)),
      File(NameJson, TRUE,  "json", JNotArray),
      File(NameJson, TRUE,  "badjson", JNotArray),
      \* neither the MIME type nor the extension of JSON
      File(NameTxt, FALSE, "json",
           JArray(<<Obj(Str(<<120>>), Arr(<<SEnt(<<66>>)>>), Undef)>>)) }

\* String.prototype.endsWith
endsWith(s, suffix) ==
    /\ Len(suffix) <= Len(s)
    /\ \A k \in 1..Len(suffix) : s[Len(s) - Len(suffix) + k] = suffix[k]

\* file.type === 'application/json' || file.name.endsWith('.json')
looksLikeJson(f) == f.jsonType \/ endsWith(f.name, <<46, 106, 115, 111, 110>>)

\* what a drop event can carry: one file, or a non-JSON file followed by one
DropLists ==
    { <<f>> : f \in Files }
    \cup { <<g, f>> : g \in { h \in Files : ~looksLikeJson(h) }, f \in Files }

Toast(kind, what, index, who) ==
    [kind |-> kind, what |-> what, index |-> index, who |-> who]

\* mutant of RemoveAt: the settled call stays in flight, as if tried again
RetryAt(seq, i) == seq

RemoveAt(seq, i) == [k \in 1..(Len(seq) - 1) |-> IF k < i THEN seq[k] ELSE seq[k + 1]]

(***************************************************************************)
(* Rendering.  The hooks of a page run on every render; a throw unmounts   *)
(* the tree (there is no error boundary).                                  *)
(***************************************************************************)
\* allCategories: data.forEach(item => item.categories.forEach(...))
aggregateThrows(d) ==
    \/ d.t # "arr"
    \/ \E i \in 1..Len(d.items) :
          d.items[i].kind # "obj" \/ d.items[i].categories.t # "arr"

\* matchesSearch: the || chain, left to right, of one item
searchThrows(item, query) ==
    /\ query # <<>>
    /\ \/ item.url.t # "str"
       \/ /\ ~includes(toLowerCase(item.url.s), toLowerCase(query))
          /\ \/ \E i \in 1..Len(item.categories.a) :
                   /\ item.categories.a[i].t # "str"
                   /\ \A j \in 1..(i - 1) :
                         ~includes(toLowerCase(item.categories.a[j].s), toLowerCase(query))
             \/ /\ \A i \in 1..Len(item.categories.a) :
                      /\ item.categories.a[i].t = "str"
                      /\ ~includes(toLowerCase(item.categories.a[i].s), toLowerCase(query))
                /\ item.summary.t \in {"other", "arr"}

\* LinkCard: formatUrl reads url.length of every displayed item
cardThrows(d, selected, query) ==
    \E i \in 1..Len(d.items) :
        /\ matchesCategory(d.items[i], selected)
        /\ matchesSearch(d.items[i], query)
        /\ d.items[i].url.t = "undef"

renderThrows(d, selected, query, isLoading) ==
    \/ aggregateThrows(d)
    \/ \E i \in 1..Len(d.items) : searchThrows(d.items[i], query)
    \/ (~isLoading /\ cardThrows(d, selected, query))

\* <FileUpload> is rendered while the index page has no data
fileUploadMounted(pg, d) == pg = "index" /\ d.t = "arr" /\ d.items = <<>>

\* the dashboard (search bar, chips, cards) is rendered
dashboardVisible ==
    /\ ~crashed
    /\ \/ page = "index" /\ data.items # <<>>
       \/ page = "company" /\ ~loading

(***************************************************************************)
(* The static server.  Companies "O", "T", "U" (79, 84, 85): O serves a    *)
(* well-formed array, T an array whose record has a numeric category entry *)
(* and a numeric summary, U has no file.  Any request may also fail in     *)
(* transit.                                                                *)
(***************************************************************************)
Companies == { <<79>>, <<84>>, <<85>> }

Response(k, v) == [k |-> k, v |-> v]

ServerData(c) ==
    IF c = <<79>> THEN
        JArray(<<Obj(Str(<<120, 97>>), Arr(<<SEnt(<<97, 98>>), SEnt(<<66>>)>>), Str(<<73, 115>>)),
                 Obj(Str(<<73, 83>>), Arr(<<SEnt(<<66>>), SEnt(<<66>>)>>), Undef)>>)
    ELSE JArray(<<Obj(Str(<<120>>), Arr(<<NumEnt, SEnt(<<66>>)>>), Other)>>)

\* k: "network" (fetch rejects), "notok" (status outside 200-299),
\* "notjson" (response.json() rejects), "json" (parsed body in v)
Responses(c) ==
    { Response("network", JNotArray) }
    \cup (IF c = <<85>>
          THEN { Response("notok", JNotArray), Response("notjson", JNotArray) }
          ELSE { Response("json", ServerData(c)) })

\* every entry a chip or a card label can show
ChipEntries == { SEnt(l) : l \in Labels } \cup { NumEnt }

\* what is typed into the search box: "", "is", "q"
TypedQueries == { <<>>, <<105, 115>>, <<113>> }

Inflight == Len(uploads) + Len(fetches)

\* the callers left behind by an unmounted component: their setters do nothing
orphanUploads(us) == [k \in 1..Len(us) |-> [us[k] EXCEPT !.fu = FALSE, !.ix = FALSE]]
orphanFetches(fs) == [k \in 1..Len(fs) |-> [fs[k] EXCEPT !.cp = FALSE]]

(***************************************************************************)
(* Index page: FileUpload                                                  *)
(***************************************************************************)
\* processFile up to its first await
processFile(f) ==
    /\ IF ~looksLikeJson(f)
       THEN /\ toast' = Toast("error", "fileType", -1, <<>>)
            /\ isProcessing' = FALSE
            /\ UNCHANGED uploads
       ELSE /\ uploads' = Append(uploads, [file |-> f, fu |-> TRUE, ix |-> TRUE])
            /\ isProcessing' = TRUE
            /\ toast' = NoToast
    /\ UNCHANGED <<page, data, selectedCategories, searchQuery, originalFilename,
                   company, loading, fetches, crashed, inp, out, pc, availVars>>
    /\ workbook' = NoWorkbook
    /\ hooks

\* handleFileSelect: the <input> is disabled while isProcessing
SelectFile(f) ==
    /\ ~crashed
    /\ fileUploadMounted(page, data)
    /\ ~isProcessing
    /\ Inflight < MaxInflight
    /\ processFile(f)

\* handleDrop: the first file that looks like JSON, whatever isProcessing is
DropFiles(fs) ==
    /\ ~crashed
    /\ fileUploadMounted(page, data)
    /\ Inflight < MaxInflight
    /\ LET json == { k \in 1..Len(fs) : looksLikeJson(fs[k]) }
       IN  IF json = {}
           THEN /\ toast' = Toast("error", "drop", -1, <<>>)
                /\ UNCHANGED <<page, data, selectedCategories, searchQuery,
                               originalFilename, isProcessing, uploads, company,
                               loading, fetches, crashed, inp, out, pc, availVars>>
                /\ workbook' = NoWorkbook
                /\ hooks
           ELSE processFile(fs[CHOOSE k \in json : \A j \in json : k <= j])

\* the notification of a processFile call that ends in its catch block
uploadError(content, readable) ==
    IF ~readable THEN Toast("error", "read", -1, <<>>)
    ELSE IF content.k = "badjson" THEN Toast("error", "syntax", -1, <<>>)
    ELSE LET r == validateJsonData(content.v)
         IN  Toast("error", r.what, r.index, <<>>)

\* processFile from `await file.text()` to its end, handleFileUpload included
ReadResolves(i, readable) ==
    /\ i \in 1..Len(uploads)
    /\ LET u == uploads[i]
           r == validateJsonData(u.file.content.v)
           success == readable /\ u.file.content.k = "json" /\ r.ok
           applied == success /\ u.ix
           newData == IF applied THEN JArray(r.value) ELSE data
           mounted == ~crashed /\ fileUploadMounted(page, newData)
       IN  /\ data' = newData
           /\ selectedCategories' = IF applied THEN <<>> ELSE selectedCategories
           /\ searchQuery' = IF applied THEN <<>> ELSE searchQuery
           \* onUpload(validatedData) passes no filename
           /\ originalFilename' = IF applied THEN Undef ELSE originalFilename
           /\ toast' = IF success
                       THEN Toast("success", "loaded", Len(r.value), <<>>)
                       ELSE uploadError(u.file.content, readable)
           /\ isProcessing' = IF u.fu THEN FALSE ELSE (mounted /\ isProcessing)
           /\ uploads' = [k \in 1..(Len(uploads) - 1) |->
                            [RemoveAt(uploads, i)[k] EXCEPT !.fu = @ /\ mounted]]
    /\ UNCHANGED <<page, company, loading, fetches, crashed, inp, out, pc, availVars>>
    /\ workbook' = NoWorkbook
    /\ hooks

\* mutant of UploadNewFile: the selection and the query are kept
UploadNewFileKeepsFilter ==
    /\ ~crashed
    /\ page = "index"
    /\ data.items # <<>>
    /\ data' = JArray(<<>>)
    /\ UNCHANGED <<selectedCategories, searchQuery>>
    /\ originalFilename' = Str(<<>>)
    /\ isProcessing' = FALSE
    /\ toast' = NoToast
    /\ UNCHANGED <<page, uploads, company, loading, fetches, crashed, inp, out, pc, availVars>>
    /\ workbook' = NoWorkbook
    /\ hooks

\* the "Upload New File" button
UploadNewFile ==
    /\ ~crashed
    /\ page = "index"
    /\ data.items # <<>>
    /\ data' = JArray(<<>>)
    /\ selectedCategories' = <<>>
    /\ searchQuery' = <<>>
    /\ originalFilename' = Str(<<>>)
    /\ isProcessing' = FALSE
    /\ toast' = NoToast
    /\ UNCHANGED <<page, uploads, company, loading, fetches, crashed, inp, out, pc, availVars>>
    /\ workbook' = NoWorkbook
    /\ hooks

(***************************************************************************)
(* Both pages: CategoryFilter, LinkCard labels, SearchBar                  *)
(***************************************************************************)
\* mutant of toggleCategory: the label is added whether selected or not
toggleCategoryAlwaysAdds(selected, category) == Append(selected, category)

toggleCategory(selected, category) ==
    IF arrayIncludes(selected, category)
    THEN SelectSeq(selected, LAMBDA c : c # category)
    ELSE Append(selected, category)

\* a re-render after a state change; a throw unmounts everything
rendered ==
    /\ crashed' = renderThrows(data', selectedCategories', searchQuery', loading')
    /\ fetches' = IF crashed' THEN orphanFetches(fetches) ELSE fetches
    /\ uploads' = IF crashed' THEN orphanUploads(uploads) ELSE uploads
    /\ hooks

ToggleCategory(category) ==
    /\ dashboardVisible
    /\ arrayIncludes(allCategories(data), category)
    /\ selectedCategories' = toggleCategory(selectedCategories, category)
    /\ toast' = NoToast
    /\ UNCHANGED <<page, data, searchQuery, originalFilename, isProcessing,
                   company, loading, inp, out, pc, availVars>>
    /\ workbook' = NoWorkbook
    /\ rendered

\* clearFilters ("Clear All")
ClearFilters ==
    /\ dashboardVisible
    /\ Len(selectedCategories) > 0
    /\ selectedCategories' = <<>>
    /\ toast' = NoToast
    /\ UNCHANGED <<page, data, searchQuery, originalFilename, isProcessing,
                   company, loading, inp, out, pc, availVars>>
    /\ workbook' = NoWorkbook
    /\ rendered

\* SearchBar onChange
SetSearchQuery(q) ==
    /\ dashboardVisible
    /\ q # searchQuery
    /\ searchQuery' = q
    /\ toast' = NoToast
    /\ UNCHANGED <<page, data, selectedCategories, originalFilename, isProcessing,
                   company, loading, inp, out, pc, availVars>>
    /\ workbook' = NoWorkbook
    /\ rendered

\* the props <ExportButton data=... originalFilename=...> of the mounted page
\* mutant of exportData: the displayed records are exported
exportDataFiltered == JArray(filteredData(data, selectedCategories, searchQuery))

exportData == data

exportName ==
    IF page = "index" THEN originalFilename
    ELSE IF company # <<>> THEN Str(company)
    ELSE Str(<<100, 97, 116, 97>>)

\* a click on "Export to Excel"; the button is disabled while data is empty
ExportToExcel ==
    /\ dashboardVisible
    /\ Len(data.items) # 0
    /\ workbook' = exportToExcel(exportData, exportName)
    /\ toast' = NoToast
    /\ UNCHANGED <<page, data, selectedCategories, searchQuery, originalFilename,
                   isProcessing, uploads, company, loading, fetches, crashed,
                   views, inp, out, pc, availVars>>

(***************************************************************************)
(* Company page                                                            *)
(***************************************************************************)
\* the route /company/:company is entered, or its parameter changes; the
\* effect runs loadCompanyData up to `await fetch`
OpenCompany(c) ==
    /\ ~crashed
    /\ Inflight < MaxInflight
    /\ \/ /\ page = "index"
          /\ page' = "company"
          /\ data' = JArray(<<>>)
          /\ selectedCategories' = <<>>
          /\ searchQuery' = <<>>
          /\ originalFilename' = Str(<<>>)
          /\ isProcessing' = FALSE
          /\ uploads' = orphanUploads(uploads)
       \/ /\ page = "company"
          /\ company # c
          /\ UNCHANGED <<page, data, selectedCategories, searchQuery,
                         originalFilename, isProcessing, uploads>>
    /\ company' = c
    /\ loading' = TRUE
    /\ fetches' = Append(fetches, [company |-> c, cp |-> TRUE])
    /\ toast' = NoToast
    /\ UNCHANGED <<crashed, inp, out, pc, availVars>>
    /\ workbook' = NoWorkbook
    /\ hooks

\* "Back to Home": the company page unmounts, a fresh index page mounts
BackToHome ==
    /\ ~crashed
    /\ page = "company"
    /\ page' = "index"
    /\ data' = JArray(<<>>)
    /\ selectedCategories' = <<>>
    /\ searchQuery' = <<>>
    /\ originalFilename' = Str(<<>>)
    /\ isProcessing' = FALSE
    /\ company' = <<>>
    /\ loading' = FALSE
    /\ fetches' = orphanFetches(fetches)
    /\ toast' = NoToast
    /\ UNCHANGED <<uploads, crashed, inp, out, pc, availVars>>
    /\ workbook' = NoWorkbook
    /\ hooks

\* mutant of takesEffect: the result of a request for another company than
\* the current one is dropped
takesEffectIfCurrent(f) == f.cp /\ f.company = company

\* the setters of a loadCompanyData call act while its component is mounted
takesEffect(f) == f.cp

\* mutant of loadingAfter: setLoading(false) only after a success
loadingAfterSuccessOnly(ok) == ~ok

\* finally { setLoading(false) }
loadingAfter(ok) == FALSE

\* mutant of setData: the records are added to those already held
setDataAppended(old, jsonData) == JArray(old.items \o jsonData.items)

\* setData(jsonData)
setData(old, jsonData) == jsonData

\* loadCompanyData from `await fetch` to its end
fetchResolves(i, resp) ==
    /\ LET f == fetches[i]
           ok == resp.k = "json"
       IN  /\ data' = IF takesEffect(f) /\ ok THEN setData(data, resp.v) ELSE data
           /\ loading' = IF takesEffect(f) THEN loadingAfter(ok) ELSE loading
           /\ toast' = IF ok THEN NoToast ELSE Toast("error", "fetch", -1, f.company)
           /\ crashed' = (crashed \/ (f.cp /\ renderThrows(data', selectedCategories, searchQuery, loading')))
           /\ fetches' = IF crashed' THEN orphanFetches(RemoveAt(fetches, i))
                         ELSE RemoveAt(fetches, i)
           /\ uploads' = IF crashed' THEN orphanUploads(uploads) ELSE uploads
    /\ UNCHANGED <<page, selectedCategories, searchQuery, originalFilename,
                   isProcessing, company, inp, out, pc, availVars>>
    /\ workbook' = NoWorkbook
    /\ hooks

FetchResolves(i) ==
    /\ i \in 1..Len(fetches)
    /\ \E resp \in Responses(fetches[i].company) : fetchResolves(i, resp)

(***************************************************************************)
(* Index page: the availability check and its cache (Index.tsx:31-139).    *)
(* It reads and writes availVars only, and no handler of the dashboard     *)
(* reads them, so it is explored on its own in AvailabilitySpec: the index *)
(* page mounts, runs its effect, is left and mounted again, while time     *)
(* passes and the per-company requests settle in any order.                *)
(*                                                                         *)
(* storage.cached: "absent", "badjson" (JSON.parse throws) or "list" (the  *)
(* saved names in v).  JSON.stringify(Array.from(set)) read back by        *)
(* new Set(JSON.parse(...)) gives the same set of names, so the list is    *)
(* kept as a set.  storage.expiry: "absent" or "num" (parseInt of the      *)
(* decimal string that was saved).                                         *)
(***************************************************************************)
CACHE_DURATION == 600000

MaxChecks == 1      \* the page is left only while fewer checks than this run
MaxWindows == 1     \* the clock runs to MaxWindows * CACHE_DURATION + 1

\* the instants the clock visits: around every multiple of the window
Instants ==
    { t \in UNION { { k * CACHE_DURATION - 1, k * CACHE_DURATION, k * CACHE_DURATION + 1 } :
                       k \in 0..MaxWindows } : t >= 0 }

SavedList(set) == [k |-> "list", v |-> set]
SavedExpiry(t) == [k |-> "num", v |-> t]

\* a cache left behind with a list that does not parse
CorruptStorage == [cached |-> [k |-> "badjson", v |-> {}],
                   expiry |-> SavedExpiry(CACHE_DURATION)]

\* encodeURIComponent for ASCII: unreserved characters stay, any other
\* becomes % and its two hexadecimal digits
Unreserved ==
    (48..57) \cup (65..90) \cup (97..122) \cup { 45, 95, 46, 33, 126, 42, 39, 40, 41 }

HexDigit(n) == IF n < 10 THEN 48 + n ELSE 55 + n

RECURSIVE encodeURIComponent(_)
encodeURIComponent(s) ==
    IF s = <<>> THEN <<>>
    ELSE (IF Head(s) \in Unreserved THEN <<Head(s)>>
          ELSE <<37, HexDigit(Head(s) \div 16), HexDigit(Head(s) % 16)>>)
         \o encodeURIComponent(Tail(s))

\* `/sorted%20posts/${encodeURIComponent(company)}.json` (Index.tsx:107)
availabilityPath(c) ==
    <<47, 115, 111, 114, 116, 101, 100, 37, 50, 48, 112, 111, 115, 116, 115, 47>>
    \o encodeURIComponent(c) \o <<46, 106, 115, 111, 110>>

\* `/sorted-posts/${encodeURIComponent(company)}.json` (CompanyPage.tsx:35)
companyDataPath(c) ==
    <<47, 115, 111, 114, 116, 101, 100, 45, 112, 111, 115, 116, 115, 47>>
    \o encodeURIComponent(c) \o <<46, 106, 115, 111, 110>>

\* what /sorted%20posts/<company>.json answers.  k: "network" (fetch
\* rejects), "notok" (status outside 200-299), "nottype" (content type is
\* not JSON), "badbody" (response.json() rejects), "json" (parsed body in v)
AvailabilityResponses(c) ==
    IF c = <<79>> THEN { Response("json", ServerData(c)), Response("network", JNotArray) }
    ELSE IF c = <<84>>
    THEN { Response("json", ServerData(c)), Response("json", JArray(<<>>)),
           Response("json", JNotArray) }
    ELSE { Response("notok", JNotArray), Response("nottype", JNotArray),
           Response("badbody", JNotArray) }

Pending == Response("pending", JNotArray)

\* mutant of hasData: an empty array counts as data
hasDataAnyArray(resp) ==
    /\ resp.k = "json"
    /\ resp.v.t = "arr"

\* response.ok && JSON content type, then Array.isArray && length > 0
hasData(resp) ==
    /\ resp.k = "json"
    /\ resp.v.t = "arr"
    /\ Len(resp.v.items) > 0

\* mutant of cacheFresh: the cache is still used at its expiry time
cacheFreshInclusive(st, t) == t <= st.expiry.v

\* now < expiryTime
cacheFresh(st, t) == t < st.expiry.v

\* loadCachedAvailability: hit (the cached set is used) or miss; the storage
\* it leaves behind
loadCachedAvailability(st, t) ==
    IF st.cached.k # "absent" /\ st.expiry.k # "absent"
    THEN IF cacheFresh(st, t)
         THEN IF st.cached.k = "list"
              THEN [hit |-> TRUE, set |-> st.cached.v, storage |-> st]
              ELSE [hit |-> FALSE, set |-> {}, storage |-> NoStorage]
         ELSE [hit |-> FALSE, set |-> {}, storage |-> NoStorage]
    ELSE [hit |-> FALSE, set |-> {}, storage |-> st]

saveCachedAvailability(availableSet, t) ==
    [cached |-> SavedList(availableSet), expiry |-> SavedExpiry(t + CACHE_DURATION)]

\* checkCompanyDataAvailability up to its awaits: one request per company
startCheck ==
    [answers |-> [c \in Companies |-> Pending], available |-> {}, mounted |-> TRUE]

unsettled(ch) == { c \in Companies : ch.answers[c] = Pending }

\* the state of the dashboard, which the availability check leaves alone
dashboardVars == <<page, data, selectedCategories, searchQuery, originalFilename,
                   isProcessing, uploads, company, loading, fetches, toast,
                   crashed, workbook, views>>

\* the mount effect of the index page
MountEffect ==
    /\ pc = "mounting"
    /\ pc' = "mounted"
    /\ LET r == loadCachedAvailability(storage, now)
       IN  IF r.hit
           THEN /\ availableCompanyData' = r.set
                /\ UNCHANGED <<isCheckingAvailability, storage, checks>>
           ELSE /\ storage' = r.storage
                /\ isCheckingAvailability' = TRUE
                /\ checks' = Append(checks, startCheck)
                /\ UNCHANGED availableCompanyData
    /\ UNCHANGED <<dashboardVars, now, inp, out>>

\* the request for company c of check i settles; after the last one the
\* check goes on past `await Promise.all`
CompanySettles(i, c) ==
    /\ i \in 1..Len(checks)
    /\ c \in unsettled(checks[i])
    /\ \E resp \in AvailabilityResponses(c) :
          LET ch == checks[i]
              available == IF hasData(resp) THEN ch.available \cup {c} ELSE ch.available
              finished == unsettled(ch) = {c}
          IN  /\ checks' = [checks EXCEPT ![i].answers[c] = resp,
                                           ![i].available = available]
              /\ availableCompanyData' =
                    IF finished /\ ch.mounted THEN available ELSE availableCompanyData
              /\ isCheckingAvailability' =
                    IF finished /\ ch.mounted THEN FALSE ELSE isCheckingAvailability
              /\ storage' =
                    IF finished THEN saveCachedAvailability(available, now) ELSE storage
    /\ UNCHANGED <<dashboardVars, now, inp, out, pc>>

\* time passes
Tick ==
    /\ \E t \in Instants : t > now /\ now' = t
    /\ UNCHANGED <<dashboardVars, availableCompanyData, isCheckingAvailability,
                   storage, checks, inp, out, pc>>

\* the index page is left and entered again: a fresh component, whose
\* effect is still to run; the checks of the old one go on, their setters
\* do nothing, and those that have finished are forgotten
Remount ==
    /\ pc = "mounted"
    /\ LET running == SelectSeq(checks, LAMBDA ch : unsettled(ch) # {})
       IN  /\ Len(running) < MaxChecks
           /\ checks' = [k \in 1..Len(running) |-> [running[k] EXCEPT !.mounted = FALSE]]
    /\ availableCompanyData' = {}
    /\ isCheckingAvailability' = FALSE
    /\ pc' = "mounting"
    /\ UNCHANGED <<dashboardVars, storage, now, inp, out>>

AvailabilityInit ==
    /\ DashboardInit
    /\ storage \in { NoStorage, CorruptStorage }
    /\ inp = <<>>
    /\ out = <<>>
    /\ pc = "mounting"

AvailabilityNext ==
    \/ MountEffect
    \/ \E i \in 1..MaxChecks, c \in Companies : CompanySettles(i, c)
    \/ Tick
    \/ Remount

AvailabilitySpec == AvailabilityInit /\ [][AvailabilityNext]_vars

(***************************************************************************)
(* The application                                                         *)
(***************************************************************************)
Init ==
    /\ AppInit
    /\ inp = <<>>
    /\ out = <<>>
    /\ pc = "app"

Next ==
    \/ \E f \in Files : SelectFile(f)
    \/ \E fs \in DropLists : DropFiles(fs)
    \/ \E i \in 1..MaxInflight, readable \in BOOLEAN : ReadResolves(i, readable)
    \/ UploadNewFile
    \/ \E c \in ChipEntries : ToggleCategory(c)
    \/ ClearFilters
    \/ \E q \in TypedQueries : SetSearchQuery(q)
    \/ \E c \in Companies : OpenCompany(c)
    \/ BackToHome
    \/ \E i \in 1..MaxInflight : FetchResolves(i)
    \/ ExportToExcel

Spec == Init /\ [][Next]_vars

(***************************************************************************)
(* Vocabulary of the properties                                            *)
(***************************************************************************)
FoldCase(c) == IF c \in 97..122 THEN c - 32 ELSE c

\* q occurs in s when letter case is ignored
CISubstring(q, s) ==
    \E off \in 0..(Len(s) - Len(q)) :
        \A k \in 1..Len(q) : FoldCase(s[off + k]) = FoldCase(q[k])

LabelsOf(r) == { r.categories.a[i].s : i \in 1..Len(r.categories.a) }

CategoryPredicate(r, selected) ==
    selected = <<>> \/ \E i \in 1..Len(selected) : selected[i].s \in LabelsOf(r)

TextPredicate(r, q) ==
    \/ q = <<>>
    \/ CISubstring(q, r.url.s)
    \/ \E l \in LabelsOf(r) : CISubstring(q, l)
    \/ (r.summary.t = "str" /\ CISubstring(q, r.summary.s))

\* res lists exactly the elements of s at the positions K, in increasing position
IsSelectionOf(res, s, K) ==
    /\ Len(res) = Cardinality(K)
    /\ \A i \in K : res[Cardinality({ j \in K : j <= i })] = s[i]

Recase(s, mode) ==
    [i \in 1..Len(s) |->
        IF mode = "upper" THEN FoldCase(s[i])
        ELSE IF s[i] \in 65..90 THEN s[i] + 32
        ELSE IF mode = "swap" THEN FoldCase(s[i])
        ELSE s[i]]

RecaseRecord(r, mode) ==
    Obj(Str(Recase(r.url.s, mode)),
        Arr([i \in 1..Len(r.categories.a) |-> SEnt(Recase(r.categories.a[i].s, mode))]),
        IF r.summary.t = "str" THEN Str(Recase(r.summary.s, mode)) ELSE r.summary)

RecaseItems(items, mode) == [i \in 1..Len(items) |-> RecaseRecord(items[i], mode)]

CaseModes == { "upper", "lower", "swap" }

LexLess(x, y) ==
    \E k \in 1..(Len(y)) :
        /\ k <= Len(x) + 1
        /\ \A j \in 1..(k - 1) : x[j] = y[j]
        /\ (k = Len(x) + 1 \/ x[k] < y[k])

ElementValid(e) ==
    /\ e.kind = "obj"
    /\ e.url.t = "str" /\ e.url.s # <<>>
    /\ e.categories.t = "arr"

FirstFailedField(e) ==
    IF e.kind # "obj" THEN "object"
    ELSE IF ~(e.url.t = "str" /\ e.url.s # <<>>) THEN "url"
    ELSE "categories"

(***************************************************************************)
(* C1: the filtered result is exactly the records that satisfy the         *)
(* category predicate and the text predicate, in their original order,     *)
(* nothing added, duplicated or reordered.                                 *)
(***************************************************************************)
C1_FilterExact ==
    pc = "done" =>
        IsSelectionOf(out, inp.data.items,
            { i \in 1..Len(inp.data.items) :
                /\ CategoryPredicate(inp.data.items[i], inp.selected)
                /\ TextPredicate(inp.data.items[i], inp.query) })

C1_Witness ==
    /\ pc = "done"
    /\ Len(inp.data.items) = 2
    /\ inp.selected # <<>>
    /\ inp.query # <<>>
    /\ CategoryPredicate(inp.data.items[1], inp.selected)
    /\ ~TextPredicate(inp.data.items[1], inp.query)
    /\ out = <<inp.data.items[2]>>

(***************************************************************************)
(* C2: with no selected category and an empty query the filter returns     *)
(* every record, unchanged and in the same order.                          *)
(***************************************************************************)
C2_FilterIdentity ==
    (pc = "done" /\ inp.selected = <<>> /\ inp.query = <<>>) =>
        out = inp.data.items

C2_Witness ==
    /\ pc = "done"
    /\ inp.selected = <<>>
    /\ inp.query = <<>>
    /\ Len(out) = 2
    /\ out[1] # out[2]

(***************************************************************************)
(* C4: search ignores letter case: changing the case of the query leaves   *)
(* the result unchanged, and changing the case of the records' url, labels *)
(* and summary changes the text predicate for no record.                   *)
(***************************************************************************)
C4_CaseInsensitive ==
    pc = "done" =>
        \A m \in CaseModes :
            /\ filteredData(inp.data, inp.selected, Recase(inp.query, m)) = out
            /\ inp.selected = <<>> =>
                 filteredData(JArray(RecaseItems(inp.data.items, m)), <<>>, inp.query)
                     = RecaseItems(out, m)

\* query "IS" finds the record whose url is "is"
C4_Witness ==
    /\ pc = "done"
    /\ inp.selected = <<>>
    /\ inp.query = <<73, 83>>
    /\ \E i \in 1..Len(out) : out[i].url.s = <<105, 115>>

(***************************************************************************)
(* C7: the validator accepts exactly the arrays whose every element is a   *)
(* non-null object with a non-empty string url and an array categories;    *)
(* the output has the input's length and order, each record the input's    *)
(* url and the input's string categories in order, non-strings dropped.    *)
(***************************************************************************)
C7_ValidatorContract ==
    pc = "done" =>
        /\ out.ok <=> (inp.t = "arr" /\ \A i \in 1..Len(inp.items) : ElementValid(inp.items[i]))
        /\ out.ok =>
            /\ Len(out.value) = Len(inp.items)
            /\ \A i \in 1..Len(inp.items) :
                /\ out.value[i].url = inp.items[i].url
                /\ out.value[i].categories.t = "arr"
                /\ IsSelectionOf(out.value[i].categories.a, inp.items[i].categories.a,
                       { j \in 1..Len(inp.items[i].categories.a) :
                            inp.items[i].categories.a[j].t = "str" })

\* an accepted upload of two elements, one of which carries a non-string entry
C7_Witness ==
    /\ pc = "done"
    /\ out.ok
    /\ Len(inp.items) = 2
    /\ \E i \in 1..2 :
          /\ \E j \in 1..Len(inp.items[i].categories.a) :
                inp.items[i].categories.a[j].t # "str"
          /\ Len(out.value[i].categories.a) = 2

(***************************************************************************)
(* C8: a validation error names the lowest index of an offending element   *)
(* and the first field that fails for it (object, then url, then           *)
(* categories); a top-level non-array is reported without an index.        *)
(***************************************************************************)
C8_ErrorNamesFirstOffender ==
    (pc = "done" /\ ~out.ok) =>
        IF inp.t # "arr"
        THEN out.what = "array" /\ out.index = -1
        ELSE LET bad == { i \in 1..Len(inp.items) : ~ElementValid(inp.items[i]) }
                 first == CHOOSE i \in bad : \A j \in bad : i <= j
             IN  /\ out.index = first - 1
                 /\ out.what = FirstFailedField(inp.items[first])

\* two offending elements; the first lacks both a url and categories
C8_Witness ==
    /\ pc = "done"
    /\ ~out.ok
    /\ Len(inp.items) = 2
    /\ ~ElementValid(inp.items[2])
    /\ inp.items[1].kind = "obj"
    /\ inp.items[1].url.s = <<>>
    /\ inp.items[1].categories.t # "arr"
    /\ out.index = 0
    /\ out.what = "url"

(***************************************************************************)
(* C9: the derived category list is in ascending order, holds no label     *)
(* twice and holds exactly the labels of the records.                      *)
(***************************************************************************)
C9_CategoriesSortedDistinct ==
    pc = "categories" =>
        /\ \A i, j \in 1..Len(out) : i < j => LexLess(out[i].s, out[j].s)
        /\ { out[i].s : i \in 1..Len(out) }
              = UNION { LabelsOf(inp.items[i]) : i \in 1..Len(inp.items) }

\* three labels, met in an order that is not the sorted one
C9_Witness ==
    /\ pc = "categories"
    /\ Len(out) = 3
    /\ Len(inp.items) = 2
    /\ inp.items[1].categories.a # <<>>
    /\ inp.items[1].categories.a[1] # out[1]

(***************************************************************************)
(* C10: the count map has the derived labels as its keys, each mapped to   *)
(* the number of records that carry the label (between 1 and the number of *)
(* records); a record that lists a label twice counts once.                *)
(***************************************************************************)
C10_CountsPerRecord ==
    pc = "stats" =>
        /\ { out[i].key : i \in 1..Len(out) }
              = UNION { LabelsOf(inp.items[i]) : i \in 1..Len(inp.items) }
        /\ \A i, j \in 1..Len(out) : out[i].key = out[j].key => i = j
        /\ \A i \in 1..Len(out) :
              /\ out[i].value
                    = Cardinality({ k \in 1..Len(inp.items) : out[i].key \in LabelsOf(inp.items[k]) })
              /\ out[i].value >= 1
              /\ out[i].value <= Len(inp.items)

\* a record lists "B" twice and "B" is counted for two records
C10_Witness ==
    /\ pc = "stats"
    /\ Len(inp.items) = 2
    /\ \E k \in 1..2 : inp.items[k].categories.a = <<SEnt(<<66>>), SEnt(<<66>>)>>
    /\ \E i \in 1..Len(out) : out[i].key = <<66>> /\ out[i].value = 2

(***************************************************************************)
(* C3: whenever some category is selected, every displayed record carries  *)
(* at least one selected label, whatever the query and also when a         *)
(* selected label no longer occurs in the dataset.                         *)
(***************************************************************************)
EntriesOf(r) == { r.categories.a[j] : j \in 1..Len(r.categories.a) }

SelectedSet == { selectedCategories[k] : k \in 1..Len(selectedCategories) }

Displayed == filteredData(data, selectedCategories, searchQuery)

C3_DisplayedShareSelectedLabel ==
    (~crashed /\ selectedCategories # <<>>) =>
        \A i \in 1..Len(Displayed) : EntriesOf(Displayed[i]) \cap SelectedSet # {}

\* a selected label is gone from the dataset, a query is typed, records show
C3_Witness ==
    /\ ~crashed
    /\ \E c \in SelectedSet : ~arrayIncludes(allCategories(data), c)
    /\ searchQuery # <<>>
    /\ Len(Displayed) > 0
    /\ Len(Displayed) < Len(data.items)

(***************************************************************************)
(* C5: after a successful upload, a record whose input element carried a   *)
(* summary is found by every non-empty query that occurs in that summary   *)
(* (case ignored), no category being selected.                             *)
(***************************************************************************)
FilesOf(us) == [k \in 1..Len(us) |-> us[k].file]

\* this step ends the pending read i by loading its records
LoadedFrom(i) ==
    /\ uploads[i].ix
    /\ FilesOf(uploads') = RemoveAt(FilesOf(uploads), i)
    /\ toast'.kind = "success"
    /\ uploads[i].file.content.v.t = "arr"
    /\ Len(data'.items) = Len(uploads[i].file.content.v.items)

C5_UploadedSummarySearchable ==
    [][\A i \in 1..Len(uploads) :
          LoadedFrom(i) =>
              LET src == uploads[i].file.content.v.items
              IN  \A j \in 1..Len(src), q \in Queries :
                      (/\ src[j].summary.t = "str"
                       /\ q # <<>>
                       /\ CISubstring(q, src[j].summary.s))
                      => \E m \in 1..Len(filteredData(data', <<>>, q)) :
                            filteredData(data', <<>>, q)[m] = data'.items[j]]_vars

(***************************************************************************)
(* C6: a malformed upload (unparseable text, a non-array, or an array with *)
(* one offending element) is rejected as a whole: the step that ends it    *)
(* raises an error and leaves the dataset, the selection, the query and    *)
(* the original filename as they were; no prefix is loaded.                *)
(***************************************************************************)
Malformed(f) ==
    \/ f.content.k = "badjson"
    \/ f.content.v.t # "arr"
    \/ \E j \in 1..Len(f.content.v.items) : ~ElementValid(f.content.v.items[j])

C6_MalformedUploadRejected ==
    [][\A i \in 1..Len(uploads) :
          (/\ Malformed(uploads[i].file)
           /\ FilesOf(uploads') = RemoveAt(FilesOf(uploads), i))
          => /\ toast'.kind = "error"
             /\ UNCHANGED <<data, selectedCategories, searchQuery, originalFilename>>]_vars

\* the file whose second element lacks a url has just been rejected while the
\* dashboard shows an earlier upload with a category selected
C6_Witness ==
    /\ page = "index"
    /\ toast.kind = "error" /\ toast.what = "url" /\ toast.index = 1
    /\ data.items # <<>>
    /\ selectedCategories # <<>>

(***************************************************************************)
(* Exporter vocabulary: what the sheets of a dataset should be, written    *)
(* from the records and not from the exporter's operators.                 *)
(***************************************************************************)
\* the distinct labels of a dataset
DistinctEntries(items) == UNION { EntriesOf(items[i]) : i \in 1..Len(items) }

\* the position of label c among the distinct labels in code-unit order
RankOf(items, c) ==
    1 + Cardinality({ e \in DistinctEntries(items) : LexLess(e.s, c.s) })

\* the positions of the records that carry label c
Carriers(items, c) == { i \in 1..Len(items) : c \in EntriesOf(items[i]) }

\* the k-th carrier of c in dataset order
KthCarrier(items, c, k) ==
    CHOOSE i \in Carriers(items, c) :
        Cardinality({ j \in Carriers(items, c) : j < i }) = k - 1

\* the export row of a record: summary or "", url, ""
RowOf(r) ==
    << IF r.summary.t = "str" THEN r.summary ELSE Str(<<>>), r.url, Str(<<>>) >>

\* C11: for each distinct label c of the exported dataset, the sheet built
\* for c (the RankOf-th sheet) is the header row Summary | URL | Human Analysis
\* followed by exactly one row [summary or "", url, ""] per record that
\* carries c, in dataset order; a record with two labels is in both sheets.
C11_SheetPerLabel ==
    (pc = "done" /\ inp.data.items # <<>>) =>
        LET items == inp.data.items
        IN  /\ Len(out.sheets) = Cardinality(DistinctEntries(items))
            /\ \A c \in DistinctEntries(items) :
                   LET rows == out.sheets[RankOf(items, c)].rows
                       n == Cardinality(Carriers(items, c))
                   IN  /\ Len(rows) = n + 1
                       /\ rows[1] = HeaderRow
                       /\ \A k \in 1..n :
                              rows[k + 1] = RowOf(items[KthCarrier(items, c, k)])

\* two records share a label and one of them has a second label: one sheet
\* has two data rows, and the same row is in two sheets
C11_Witness ==
    /\ pc = "done"
    /\ Len(inp.data.items) = 2
    /\ inp.data.items[1] # inp.data.items[2]
    /\ \E i, j \in 1..Len(out.sheets) :
          /\ i # j
          /\ Len(out.sheets[i].rows) = 3
          /\ Len(out.sheets[j].rows) = 2
          /\ out.sheets[j].rows[2] \in { out.sheets[i].rows[2], out.sheets[i].rows[3] }

\* the characters a spreadsheet sheet name may not contain: \ / ? * [ ] :
ForbiddenInSheetName == { 92, 47, 63, 42, 91, 93, 58 }

\* C12: every sheet name handed to the spreadsheet library is non-empty, at
\* most 31 characters long, and contains none of \ / ? * [ ] :
C12_SheetNamesValid ==
    pc = "done" =>
        \A i \in 1..Len(out.sheets) :
            LET name == out.sheets[i].name
            IN  /\ name # <<>>
                /\ Len(name) <= 31
                /\ \A k \in 1..Len(name) : name[k] \notin ForbiddenInSheetName

\* the base names of the files that can be uploaded: the name without its
\* ".json" extension, whatever the case of the extension
CIEqual(x, y) ==
    /\ Len(x) = Len(y)
    /\ \A k \in 1..Len(x) : FoldCase(x[k]) = FoldCase(y[k])

UploadBaseNames ==
    { SubSeq(f.name, 1, Len(f.name) - 5) :
        f \in { g \in Files : /\ Len(g.name) >= 5
                               /\ CIEqual(SubSeq(g.name, Len(g.name) - 4, Len(g.name)),
                                          <<46, 106, 115, 111, 110>>) } }

\* C13: an export on the index page, whose records came from an uploaded
\* file N.json, writes N.xlsx; an export on the company page writes
\* <company>.xlsx.
C13_ExportFilename ==
    [][workbook'.written =>
          IF page = "index"
          THEN \E n \in UploadBaseNames : workbook'.filename = n \o <<46, 120, 108, 115, 120>>
          ELSE workbook'.filename = company \o <<46, 120, 108, 115, 120>>]_vars

\* C14: an export step writes the sheets of the full dataset whatever the
\* selection and the query are (every label of the dataset has its sheet,
\* with a row for every record that carries it), it leaves the dataset and
\* the FilterState as they were, and nothing is handed to the library when
\* the dataset is empty.
C14_ExportIgnoresFilter ==
    [][(workbook' # NoWorkbook) =>
          /\ data.items # <<>>
          /\ UNCHANGED <<data, selectedCategories, searchQuery>>
          /\ workbook'.written =>
                /\ Len(workbook'.sheets) = Cardinality(DistinctEntries(data.items))
                /\ \A c \in DistinctEntries(data.items) :
                       LET rows == workbook'.sheets[RankOf(data.items, c)].rows
                           n == Cardinality(Carriers(data.items, c))
                       IN  /\ Len(rows) = n + 1
                           /\ \A k \in 1..n :
                                  rows[k + 1] = RowOf(data.items[KthCarrier(data.items, c, k)])]_vars

\* a workbook was written while the filter hides some of the records
C14_Witness ==
    /\ workbook.written
    /\ Len(Displayed) < Len(data.items)
    /\ selectedCategories # <<>>

\* C15: when the fetch of the current company fails (missing file, non-OK
\* status, network error, body that is not JSON), an error notification is
\* raised and the company page's dataset is empty after the failure, also
\* when the records of a previous company had been loaded.
C15_FailedFetchLeavesNoData ==
    [][(/\ page = "company"
        /\ Len(fetches') < Len(fetches)
        /\ toast'.kind = "error"
        /\ toast'.who = company)
          => data'.items = <<>>]_vars

\* a record as the record format describes it: a non-empty string url, an
\* array of string labels, a summary that is a string or absent
WellShaped(r) ==
    /\ r.kind = "obj"
    /\ r.url.t = "str" /\ r.url.s # <<>>
    /\ r.categories.t = "arr"
    /\ \A j \in 1..Len(r.categories.a) : r.categories.a[j].t = "str"
    /\ r.summary.t \in { "str", "undef" }

\* C16: the dataset of the company page is always an array of well-shaped
\* records: a remote response that is valid JSON but not well-shaped is
\* rejected and never stored.
C16_CompanyDataWellShaped ==
    page = "company" =>
        /\ data.t = "arr"
        /\ \A i \in 1..Len(data.items) : WellShaped(data.items[i])

(***************************************************************************)
(* Availability vocabulary                                                 *)
(***************************************************************************)
\* the answer says there is data: OK, JSON content type, a non-empty array
AnswersWithData(a) == a.k = "json" /\ a.v.t = "arr" /\ a.v.items # <<>>

\* check i finishes in this step: its last request settles
Finishes(i) ==
    /\ Len(checks') = Len(checks)
    /\ i \in 1..Len(checks)
    /\ \E c \in Companies : checks[i].answers[c] = Pending
    /\ \A c \in Companies : checks'[i].answers[c] # Pending

\* C17: when the availability check of the mounted index page finishes, the
\* available set is exactly the companies whose endpoint answered OK with a
\* JSON content type and a non-empty array; any other answer of a company
\* (absent, other content type, empty or non-array body, thrown error)
\* leaves that company out, changes nothing for the others, and the check
\* still finishes (isCheckingAvailability goes off).
C17_AvailableExactlyAnswered ==
    [][\A i \in 1..MaxChecks :
          (Finishes(i) /\ checks[i].mounted) =>
              /\ availableCompanyData' =
                    { c \in Companies : AnswersWithData(checks'[i].answers[c]) }
              /\ isCheckingAvailability' = FALSE]_vars

\* a check has finished in which "O" failed in transit, "U" answered with
\* another content type and "T" had data
C17_Witness ==
    /\ \E i \in 1..Len(checks) :
          /\ checks[i].mounted
          /\ checks[i].answers[<<79>>].k = "network"
          /\ checks[i].answers[<<85>>].k = "nottype"
          /\ checks[i].answers[<<84>>].k = "json"
    /\ availableCompanyData = { <<84>> }
    /\ ~isCheckingAvailability

\* the index page's effect runs in this step
Mounts == pc = "mounting" /\ pc' = "mounted"

BothKeysPresent == storage.cached.k # "absent" /\ storage.expiry.k # "absent"

Resolves(i) ==
    /\ i \in 1..Len(fetches)
    /\ ~crashed'
    /\ fetches' = RemoveAt(fetches, i)

\* C19: there is no cancellation.  When the company page has moved on from
\* company A to company B, no request for B is in flight any more, and A's
\* request, issued by the same page, then resolves with a body, the dataset
\* becomes A's records while the current company is still B.
C19_StaleResponseOverwrites ==
    [][\A i \in 1..MaxInflight :
          (/\ page = "company"
           /\ Resolves(i)
           /\ fetches[i].cp
           /\ fetches[i].company # company
           /\ \A k \in 1..Len(fetches) : fetches[k].company # company
           /\ toast'.kind # "error")
              => /\ data' = ServerData(fetches[i].company)
                 /\ company' = company
                 /\ ~loading']_vars

\* the state a late answer for "O" leaves on the page of "T": O's records
\* under the current company T, nothing in flight
C19_Witness ==
    /\ page = "company"
    /\ company = <<84>>
    /\ data = ServerData(<<79>>)
    /\ fetches = <<>>
    /\ ~loading
    /\ ~crashed
    /\ toast = NoToast

\* d is the complete result of loading the parsed upload v: one record per
\* element, in order, with its url and its string labels
IsUploadOf(d, v) ==
    /\ v.t = "arr"
    /\ Len(d.items) = Len(v.items)
    /\ \A i \in 1..Len(v.items) :
          /\ ElementValid(v.items[i])
          /\ d.items[i].url = v.items[i].url
          /\ d.items[i].categories.a =
                SelectSeq(v.items[i].categories.a, LAMBDA e : e.t = "str")

\* C20: in every reachable state of either page the dataset is empty, or
\* it is the complete result of one single load: all the records of one
\* uploaded file, or the body of one fetch response; never a mix of two
\* loads or a part of one.
C20_OneLoadAtATime ==
    \/ data.items = <<>>
    \/ /\ page = "index"
       /\ \E f \in Files : f.content.k = "json" /\ IsUploadOf(data, f.content.v)
    \/ /\ page = "company"
       /\ \E c \in Companies : \E r \in Responses(c) : r.k = "json" /\ data = r.v

\* the last step loaded the one-record file while the read of another
\* dropped file is still in flight
C20_Witness ==
    /\ page = "index"
    /\ Len(data.items) = 1
    /\ toast.kind = "success"
    /\ Len(uploads) = 1
    /\ uploads[1].ix
    /\ Len(uploads[1].file.content.v.items) = 2

\* C21: in every reachable state whose page is rendered, the memoized
\* views agree with the current state: the category list is that of the
\* dataset, the counts are those of the dataset, and the displayed results
\* are the filter of the dataset under the current selection and query.
C21_ViewsAgree ==
    ~crashed =>
        /\ views.allCategories = allCategories(data)
        /\ views.categoryStats = categoryStats(data)
        /\ views.filteredData = filteredData(data, selectedCategories, searchQuery)

\* a selection and a query are set and hide one of two records
C21_Witness ==
    /\ ~crashed
    /\ Len(data.items) = 2
    /\ selectedCategories # <<>>
    /\ searchQuery # <<>>
    /\ Len(views.filteredData) = 1
    /\ Len(views.categoryStats) = 2

IxOf(us) == [k \in 1..Len(us) |-> us[k].ix]

\* this step ends the pending read i of the mounted index page with success
UploadApplied(i) ==
    /\ page = "index"
    /\ i \in 1..Len(uploads)
    /\ uploads[i].ix
    /\ FilesOf(uploads') = RemoveAt(FilesOf(uploads), i)
    /\ IxOf(uploads') = RemoveAt(IxOf(uploads), i)
    /\ toast'.kind = "success"

\* this step is a click on "Upload New File"
Cleared ==
    /\ page = "index" /\ page' = "index"
    /\ data.items # <<>> /\ data'.items = <<>>
    /\ UNCHANGED uploads

\* C22: on the index page a successful upload makes the dataset exactly the
\* records of the uploaded file, and "Upload New File" makes it empty with
\* an empty original filename; both leave selectedCategories empty and
\* searchQuery "", whatever they were before.
C22_ReplacementResetsView ==
    [][/\ \A i \in 1..MaxInflight :
              UploadApplied(i) =>
                  /\ IsUploadOf(data', uploads[i].file.content.v)
                  /\ selectedCategories' = <<>>
                  /\ searchQuery' = <<>>
       /\ Cleared =>
              /\ ~Truthy(originalFilename') /\ originalFilename'.t = "str"
              /\ selectedCategories' = <<>>
              /\ searchQuery' = <<>>]_vars

\* the dataset has just been emptied by "Upload New File"
C22_Witness ==
    /\ page = "index"
    /\ ~crashed
    /\ data.items = <<>>
    /\ originalFilename = Str(<<>>)
    /\ selectedCategories = <<>>
    /\ searchQuery = <<>>
    /\ toast = NoToast
    /\ Len(uploads) = 1
    /\ uploads[1].ix /\ ~uploads[1].fu

\* the notifications of a read or a request that failed
FailureKinds == { "read", "syntax", "array", "object", "url", "categories", "fetch" }

\* C23: there is no retry.  A request is issued only by a trigger: a fetch
\* only in a step that enters the company page or changes its company, and
\* then exactly one; a file read only in a step of the mounted upload box,
\* and then exactly one.  A step in which a read or a request fails takes
\* that call out of flight and issues no other.
C23_NoRetry ==
    [][/\ Len(fetches') > Len(fetches) =>
              /\ page' = "company"
              /\ page # page' \/ company # company'
              /\ Len(fetches') = Len(fetches) + 1
              /\ fetches'[Len(fetches')].company = company'
              /\ Len(uploads') = Len(uploads)
       /\ (page' = "company" /\ (page # page' \/ company # company')) =>
              Len(fetches') = Len(fetches) + 1
       /\ Len(uploads') > Len(uploads) =>
              /\ fileUploadMounted(page, data)
              /\ Len(uploads') = Len(uploads) + 1
              /\ Len(fetches') = Len(fetches)
              /\ toast'.kind = "none"
       /\ (toast'.kind = "error" /\ toast'.what \in FailureKinds) =>
              Len(uploads') + Len(fetches') = Len(uploads) + Len(fetches) - 1]_vars

\* the only request of the company page has just failed: nothing is in
\* flight and nothing was loaded
C23_Witness ==
    /\ page = "company"
    /\ toast.kind = "error"
    /\ toast.what = "fetch"
    /\ toast.who = company
    /\ fetches = <<>>
    /\ uploads = <<>>
    /\ ~loading
    /\ data.items = <<>>

FuOf(us) == [k \in 1..Len(us) |-> us[k].fu]

\* this step ends the pending read i, issued by the upload box that is
\* still mounted, with a failure
UploadFails(i) ==
    /\ i \in 1..Len(uploads)
    /\ uploads[i].fu
    /\ FilesOf(uploads') = RemoveAt(FilesOf(uploads), i)
    /\ IxOf(uploads') = RemoveAt(IxOf(uploads), i)
    /\ FuOf(uploads') = RemoveAt(FuOf(uploads), i)
    /\ toast'.kind = "error"

\* C24: an error ends only the action that met it.  When a read of the
\* mounted upload box fails, isProcessing is false afterwards; when a
\* request of the mounted company page fails, loading is false afterwards;
\* and in every state, states after failures included, a read or a request
\* that then succeeds loads its records.
C24_ErrorIsTerminalForItsAction ==
    [][/\ \A i \in 1..MaxInflight :
              /\ UploadFails(i) => ~isProcessing'
              /\ (Resolves(i) /\ fetches[i].cp /\ toast'.kind = "error") => ~loading'
              /\ UploadApplied(i) => IsUploadOf(data', uploads[i].file.content.v)
              /\ (Resolves(i) /\ fetches[i].cp /\ toast'.kind # "error") =>
                     /\ data' = ServerData(fetches[i].company)
                     /\ ~loading']_vars

\* a read has just failed on its content: the upload box is mounted, idle
\* and ready for the next file
C24_Witness ==
    /\ ~crashed
    /\ fileUploadMounted(page, data)
    /\ toast.kind = "error"
    /\ toast.what = "url"
    /\ ~isProcessing
    /\ uploads = <<>>

\* C25: on the company page loading is true in every state in which a
\* request of the page for the current company is still in flight.
C25_LoadingWhileInFlight ==
    (/\ page = "company"
     /\ ~crashed
     /\ \E k \in 1..Len(fetches) : fetches[k].cp /\ fetches[k].company = company)
        => loading

\* C26: whenever the availability check has marked company C as available,
\* and so made its card a link, the resource the company page will request
\* for C is the one the check has read.
C26_AvailableMeansLoadable ==
    \A c \in availableCompanyData : companyDataPath(c) = availabilityPath(c)

\* C27: for every dataset the export hands the library exactly one sheet
\* per distinct label, and no two of the sheets have the same name.
C27_SheetNamesDistinct ==
    (pc = "done" /\ inp.data.items # <<>>) =>
        /\ Len(out.sheets) = Cardinality(DistinctEntries(inp.data.items))
        /\ \A i, j \in 1..Len(out.sheets) :
               i # j => out.sheets[i].name # out.sheets[j].name

\* C28: the export of a non-empty dataset has at least one sheet, and every
\* record of the dataset is a row of at least one sheet.
C28_EveryRecordExported ==
    (pc = "done" /\ inp.data.items # <<>>) =>
        /\ Len(out.sheets) >= 1
        /\ \A r \in 1..Len(inp.data.items) :
               \E i \in 1..Len(out.sheets) :
                   \E k \in 2..Len(out.sheets[i].rows) :
                       out.sheets[i].rows[k] = RowOf(inp.data.items[r])

SetOf(seq) == { seq[k] : k \in 1..Len(seq) }

NoDuplicates(seq) == \A i, j \in 1..Len(seq) : i # j => seq[i] # seq[j]

\* C29: selectedCategories never holds a label twice; a toggle of a label
\* that is not selected adds it, a toggle of a selected label removes it,
\* and two toggles of the same label in succession give back the selected
\* set there was.
C29_ToggleKeepsSelectionASet ==
    /\ NoDuplicates(selectedCategories)
    /\ \A c \in ChipEntries :
          LET S == SetOf(selectedCategories)
              once == toggleCategory(selectedCategories, c)
              twice == toggleCategory(once, c)
          IN  /\ NoDuplicates(once)
              /\ c \notin S => SetOf(once) = S \cup {c}
              /\ c \in S => SetOf(once) = S \ {c}
              /\ SetOf(twice) = S

\* two labels are selected, the one clicked second sorting first
C29_Witness ==
    /\ dashboardVisible
    /\ Len(selectedCategories) = 2
    /\ strLess(selectedCategories[2].s, selectedCategories[1].s)
    /\ \A k \in 1..2 : arrayIncludes(allCategories(data), selectedCategories[k])

\* C30: OR-selection is monotone.  For every dataset and query and every
\* non-empty selection S, each record returned for S is returned for
\* every selection that contains the labels of S, so adding a label never
\* removes a result and removing one, short of the last, never adds one.
C30_SelectionMonotone ==
    (pc = "done" /\ inp.selected # <<>>) =>
        \A S2 \in Selections :
            SetOf(inp.selected) \subseteq SetOf(S2) =>
                LET more == filteredData(inp.data, S2, inp.query)
                IN  /\ Len(out) <= Len(more)
                    /\ \A i \in 1..Len(out) : \E j \in 1..Len(more) : more[j] = out[i]

\* a selection of one label returns one of two records, and a larger
\* selection returns both
C30_Witness ==
    /\ pc = "done"
    /\ Len(inp.selected) = 1
    /\ inp.query = <<>>
    /\ Len(inp.data.items) = 2
    /\ Len(out) = 1
    /\ \E S2 \in Selections :
          /\ SetOf(inp.selected) \subseteq SetOf(S2)
          /\ Len(filteredData(inp.data, S2, inp.query)) = 2

====
